---- MODULE Spec2Model ----
(***************************************************************************)
(* State-machine model of the PPO training driver (learn.py: learn) and of *)
(* the agent (agent.py: Agent, PPOAgent).                                  *)
(*                                                                         *)
(* Numbers that are floats in the program are kept exact here:             *)
(*   - clip_threshold, ratios and clamps are in hundredths (0.2 -> 20);    *)
(*   - log-probabilities are in ten-thousandths;                           *)
(*   - the learning-rate multiplier 1 - step/num_updates is kept as its    *)
(*     numerator over num_updates (num_updates - step).                    *)
(***************************************************************************)
EXTENDS Integers, Sequences, FiniteSets, TLC

(***************************************************************************)
(* Bounds of the model.                                                    *)
(***************************************************************************)
MaxEnvs == 3
MaxStepsPerUpdate == 2
MaxSaveInterval == 2
MaxPositional == 7
MaxKwargs == 2
MaxBatch == 2

\* Runs of learn are of at most this many update cycles.
MaxUpdates == 7

\* How many batches fewer than asked for the rollout buffer's generator may
\* yield per call: none, or one.
YieldDeficits == {0, 1}

\* total_steps values tried: none, fewer than one rollout of the larger
\* configurations, and enough for more than DequeMaxLen finished episodes.
TotalStepsChoices == {0, 7, 18}

(***************************************************************************)
(* Program constants.                                                      *)
(***************************************************************************)
DefaultClipThreshold == 20
DefaultEpochs == 4
DefaultMinibatches == 16
DequeMaxLen == 16

(***************************************************************************)
(* State.                                                                  *)
(***************************************************************************)
VARIABLES
    \* learn's arguments
    num_envs, total_steps, steps_per_update, save_interval,
    \* learn's locals and position
    pc, num_updates, update_step, step,
    episode_rewards, finished,
    writer, metrics_step, metrics_written, checkpoints,
    \* the actor-critic's parameters: the number of optimizer steps applied
    params,
    \* how many batches short of the number asked for the rollout buffer's
    \* batches generator falls
    yield_deficit,
    \* the environment workers
    wstate, wstarted, wfinished, wactions, done_values,
    \* the agent and its learning-rate scheduler
    agent, agent_error, last_epoch, lr_mult,
    \* PPOAgent.update's locals
    epoch, nb, batch, yielded, grad_steps, grad_log,
    \* operations issued so far, and the operation that raised (if any)
    cnt, failedOp,
    \* a PPOAgent constructor call on its own
    ctor_npos, ctor_kw, ctor_state,
    \* a _policy_loss call on its own
    loss_batch, policy_loss

argVars == <<num_envs, total_steps, steps_per_update, save_interval>>
cfgVars == <<argVars, yield_deficit>>
loopVars == <<pc, num_updates, update_step, step>>
episodeVars == <<episode_rewards, finished>>
outVars == <<writer, metrics_step, metrics_written, checkpoints>>
workerVars == <<wstate, wstarted, wfinished, wactions, done_values>>
agentVars == <<agent, agent_error, last_epoch, lr_mult>>
updateVars == <<epoch, nb, batch, yielded, grad_steps, grad_log>>
ctorVars == <<ctor_npos, ctor_kw, ctor_state>>
lossVars == <<loss_batch, policy_loss>>
learnVars == <<cfgVars, loopVars, episodeVars, outVars, params,
               yield_deficit, workerVars,
               last_epoch, lr_mult, updateVars, cnt, failedOp>>
vars == <<learnVars, agent, agent_error, ctorVars, lossVars>>

(***************************************************************************)
(* Agent.__init__ and PPOAgent.__init__.                                   *)
(***************************************************************************)
\* Agent.__init__'s parameters after self, in positional order.
AgentParamOrder ==
    <<"actor_critic", "lr", "lr_lambda", "value_loss_coef", "entropy_coef",
      "max_grad_norm">>

AgentParams == {AgentParamOrder[i] : i \in 1..Len(AgentParamOrder)}

\* The names PPOAgent.__init__ looks up in kwargs.
PPOKwNames == {"clip_threshold", "epochs", "minibatches"}

\* Parameters bound by npos positional arguments.
BoundPositionally(npos) ==
    {AgentParamOrder[i] : i \in 1..(IF npos < Len(AgentParamOrder)
                                    THEN npos ELSE Len(AgentParamOrder))}

\* Variant of AgentInitAccepts: an Agent.__init__ that swallowed unknown
\* keywords (a **kwargs catch-all in its signature).
AgentInitAcceptsAnyKeyword(npos, kw) ==
    /\ npos <= Len(AgentParamOrder)
    /\ BoundPositionally(npos) \cap DOMAIN kw = {}
    /\ "actor_critic" \in BoundPositionally(npos) \cup DOMAIN kw

\* Python's binding of (*args, **kwargs) to Agent.__init__'s signature:
\* TRUE iff the call does not raise TypeError.  actor_critic is the only
\* parameter without a default.
AgentInitAccepts(npos, kw) ==
    /\ npos <= Len(AgentParamOrder)
    /\ DOMAIN kw \subseteq AgentParams
    /\ BoundPositionally(npos) \cap DOMAIN kw = {}
    /\ "actor_critic" \in BoundPositionally(npos) \cup DOMAIN kw

\* dict.pop(name, default)
KwPop(kw, name, default) == IF name \in DOMAIN kw THEN kw[name] ELSE default

NoAgent ==
    [constructed |-> FALSE, clip_threshold |-> 0, epochs |-> 0, minibatches |-> 0]

\* PPOAgent(*args, **kwargs): super().__init__(*args, **kwargs) first, and
\* only then the three lookups in kwargs.
PPOAgentInit(npos, kw) ==
    IF AgentInitAccepts(npos, kw)
    THEN [constructed |-> TRUE,
          clip_threshold |-> KwPop(kw, "clip_threshold", DefaultClipThreshold),
          epochs |-> KwPop(kw, "epochs", DefaultEpochs),
          minibatches |-> KwPop(kw, "minibatches", DefaultMinibatches)]
    ELSE NoAgent

\* The keyword arguments tried: up to MaxKwargs names, values that differ
\* from the defaults for the three PPO names.
KwValues(name) ==
    CASE name = "clip_threshold" -> {10, 30}
      [] name = "epochs" -> {1, 8}
      [] name = "minibatches" -> {4, 32}
      [] OTHER -> {1}

KwargsChoices ==
    UNION {{kw \in [K -> {1, 4, 8, 10, 30, 32}] :
                \A n \in K : kw[n] \in KwValues(n)} :
           K \in {S \in SUBSET (AgentParams \cup PPOKwNames) :
                      Cardinality(S) <= MaxKwargs}}

\* The call learn makes: PPOAgent(actor_critic, lr_lambda=...).
LearnCtorNpos == 1
LearnCtorKw == [n \in {"lr_lambda"} |-> 1]

(***************************************************************************)
(* PPOAgent._policy_loss.                                                  *)
(***************************************************************************)
\* torch.exp on the log-probability differences tried, in hundredths
\* (exp(-0.2231) = 0.80, exp(0.1823) = 1.20: the clip boundaries).
ExpTable ==
    [d \in {-5000, -2231, -1000, 0, 1000, 1823, 5000} |->
        CASE d = -5000 -> 61
          [] d = -2231 -> 80
          [] d = -1000 -> 90
          [] d = 0 -> 100
          [] d = 1000 -> 111
          [] d = 1823 -> 120
          [] d = 5000 -> 165]

LogDiffs == DOMAIN ExpTable
OldLogProbs == {-6931}
Advantages == {-3, 0, 2}

Min(a, b) == IF a <= b THEN a ELSE b

\* torch.clamp(x, lo, hi)
Clamp(x, lo, hi) == IF x < lo THEN lo ELSE IF x > hi THEN hi ELSE x

\* Variant of SampleObjective: the clamp term alone, without the min.
SampleObjectiveClampOnly(clip, s) ==
    Clamp(ExpTable[s.new_lp - s.old_lp], 100 - clip, 100 + clip) * s.adv

\* One element of torch.min(ratio_term, clamp_term), in hundredths.
SampleObjective(clip, s) ==
    LET ratio == ExpTable[s.new_lp - s.old_lp]
        ratio_term == ratio * s.adv
        clamp == Clamp(ratio, 100 - clip, 100 + clip)
        clamp_term == clamp * s.adv
    IN  Min(ratio_term, clamp_term)

RECURSIVE SeqSum(_)
SeqSum(q) == IF q = <<>> THEN 0 ELSE Head(q) + SeqSum(Tail(q))

\* torch.min(ratio_term, clamp_term) over the batch, and
\* -torch.min(ratio_term, clamp_term).mean() as the fraction num/den.
PolicyLoss(clip, b) ==
    LET min_terms == [i \in 1..Len(b) |-> SampleObjective(clip, b[i])]
    IN  [min_terms |-> min_terms, num |-> 0 - SeqSum(min_terms), den |-> Len(b)]

Samples ==
    {[new_lp |-> o + d, old_lp |-> o, adv |-> a] :
        o \in OldLogProbs, d \in LogDiffs, a \in Advantages}

Batches == UNION {[1..n -> Samples] : n \in 1..MaxBatch}

NoLoss == [min_terms |-> <<>>, num |-> 0, den |-> 0]

(***************************************************************************)
(* learn: helpers.                                                         *)
(***************************************************************************)
Envs == 1..num_envs

\* Variant of ActionEnvs: a rollout buffer built for one environment fewer.
ActionEnvsOneShort == 1..(num_envs - 1)

\* The environments an actions batch has an entry for: the buffer and the
\* actor input are built with num_envs=num_envs.
ActionEnvs == 1..num_envs

\* num_updates = total_steps // (num_envs * steps_per_update)
NumUpdates == total_steps \div (num_envs * steps_per_update)

\* Variant of LrLambdaNum: the multiplier of the previous scheduler step.
LrLambdaNumLagging(s) == num_updates - (s - 1)

\* lr_lambda = lambda step: 1 - step / float(num_updates), as the numerator
\* over num_updates.
LrLambdaNum(s) == num_updates - s

\* deque(maxlen=16).append
DequeAppend(q, x) ==
    IF Len(q) = DequeMaxLen THEN Append(Tail(q), x) ELSE Append(q, x)

\* for done, info in zip(done_values, info_dicts): if done: append.
\* The value appended for the n-th finished episode of the run is kept as n.
RECURSIVE RecordFrom(_, _, _, _)
RecordFrom(w, q, n, dones) ==
    IF w > num_envs THEN [q |-> q, n |-> n]
    ELSE IF dones[w] THEN RecordFrom(w + 1, DequeAppend(q, n + 1), n + 1, dones)
    ELSE RecordFrom(w + 1, q, n, dones)

\* Variant of SaveModel: saving at the start of every interval.
SaveModelAtIntervalStart(u) == (u % save_interval) = 0

\* save_model = (update_step % save_interval) == (save_interval - 1)
SaveModel(u) == (u % save_interval) = (save_interval - 1)

\* 'models/model_{}.bin'.format(update_step + 1)
ModelLabel(u) == u + 1

\* torch.save to a path: replaces what the path held.
SaveTo(files, label, snapshot) ==
    {f \in files : f.label # label} \cup {[label |-> label, snapshot |-> snapshot]}

\* Variant of EmitMetrics: waiting for a full window of episodes.
EmitMetricsWhenFull(q) == Len(q) = DequeMaxLen

\* if episode_rewards:
EmitMetrics(q) == q # <<>>

\* Variant of StepsInRollout: one step too many.
StepsInRolloutPlusOne == steps_per_update + 1

\* for step in range(steps_per_update)
StepsInRollout == steps_per_update

\* Variant of UpdatesInRun: an inclusive loop bound.
UpdatesInRunPlusOne == num_updates + 1

\* for update_step in range(num_updates)
UpdatesInRun == num_updates

\* Variant of EpochsInUpdate: one epoch short.
EpochsInUpdateOneShort == agent.epochs - 1

\* for epoch in range(self._epochs)
EpochsInUpdate == agent.epochs

\* The tensor-runtime calls of one gradient step, in order.
GradStepOps == <<"zero_grad", "backward", "clip_grad_norm_", "step">>

\* The tags of the tb_writer calls of one metrics block, in order.
MetricTags ==
    <<"mario/lr", "mario/level_progress", "mario/reward", "mario/loss">>

\* The number of batches one experience_storage.batches(advantages, mb)
\* call yields: mb, or fewer by the buffer's deficit.
BatchesYielded(mb) == IF mb > yield_deficit THEN mb - yield_deficit ELSE 0

Count(op) == [cnt EXCEPT ![op] = @ + 1]

NoCounts ==
    [act |-> 0, envstep |-> 0, insert |-> 0, bootstrap |-> 0, returns |-> 0,
     update_begin |-> 0, sched |-> 0, update_end |-> 0, cycle_end |-> 0]

RunningPcs ==
    {"start", "make_agent", "act", "envstep", "envstep_wait", "insert",
     "record", "bootstrap", "returns", "upd_adv", "upd_sched", "upd_epoch",
     "upd_grad", "metrics", "save", "close"}

\* Variant of Raise: the exception is swallowed and the loop goes on.
RaiseSwallowed(op) == /\ failedOp' = op
                      /\ pc' = pc

\* An exception leaving learn: nothing in learn catches it.
Raise(op) == /\ failedOp' = op
             /\ pc' = "aborted"

(***************************************************************************)
(* learn: one action per statement of the training loop.                   *)
(***************************************************************************)
idleOthers == UNCHANGED <<ctorVars, lossVars>>

\* The vectorized environment, the policy, the rollout buffer, the reset,
\* the deque, the writer and num_updates.
Setup ==
    /\ pc = "start"
    /\ wstate' = [w \in Envs |-> "idle"]
    /\ episode_rewards' = <<>>
    /\ writer' = "open"
    /\ num_updates' = NumUpdates
    /\ yield_deficit' \in YieldDeficits
    /\ pc' = "make_agent"
    /\ UNCHANGED <<argVars, update_step, step, finished, metrics_step,
                   metrics_written, checkpoints, params, wstarted, wfinished, wactions,
                   done_values, agentVars, updateVars, cnt, failedOp>>
    /\ idleOthers

\* What LambdaLR's constructor leaves in last_epoch after its initial
\* step(0), by the torch installed: -1 (it restores its argument, torch up
\* to 1.0) or 0 (torch from 1.1 on).  The repository pins no version.
SchedulerInitialEpochs == {-1, 0}

\* agent = PPOAgent(actor_critic, lr_lambda=...).  Agent.__init__ builds the
\* LambdaLR scheduler, which evaluates lr_lambda(0) at once: a float division
\* by num_updates, which raises ZeroDivisionError when num_updates is 0.
ConstructAgent ==
    /\ pc = "make_agent"
    /\ IF num_updates = 0
       THEN /\ agent_error' = "ZeroDivisionError"
            /\ Raise("make_agent")
            /\ UNCHANGED <<agent, last_epoch, lr_mult, update_step, step>>
       ELSE /\ agent' = PPOAgentInit(LearnCtorNpos, LearnCtorKw)
            /\ agent_error' = "none"
            /\ last_epoch' \in SchedulerInitialEpochs
            /\ lr_mult' = LrLambdaNum(0)
            /\ update_step' = 0
            /\ step' = 0
            /\ pc' = "act"
            /\ UNCHANGED failedOp
    /\ UNCHANGED <<cfgVars, num_updates, episodeVars, outVars, params,
                   workerVars, updateVars, cnt>>
    /\ idleOthers

\* actor_critic.act on the buffer's input for this step (no_grad).
Act ==
    /\ pc = "act"
    /\ cnt' = Count("act")
    /\ pc' = "envstep"
    /\ UNCHANGED <<cfgVars, num_updates, update_step, step, episodeVars,
                   outVars, params, workerVars, agentVars, updateVars, failedOp>>
    /\ idleOthers

\* envs.step(actions): every action of the batch goes to its worker.
EnvStepCall ==
    /\ pc = "envstep"
    /\ cnt' = Count("envstep")
    /\ wstate' = [w \in Envs |-> IF w \in ActionEnvs THEN "busy" ELSE wstate[w]]
    /\ wactions' = [w \in Envs |-> IF w \in ActionEnvs THEN wactions[w] + 1
                                   ELSE wactions[w]]
    /\ wstarted' = [w \in Envs |-> IF w \in ActionEnvs THEN wstarted[w] + 1
                                   ELSE wstarted[w]]
    /\ pc' = "envstep_wait"
    /\ UNCHANGED <<cfgVars, num_updates, update_step, step, episodeVars,
                   outVars, params, wfinished, done_values, agentVars,
                   updateVars, failedOp>>
    /\ idleOthers

\* One worker process steps its environment and answers.
WorkerStep(w) ==
    /\ pc = "envstep_wait"
    /\ wstate[w] = "busy"
    /\ wstate' = [wstate EXCEPT ![w] = "done"]
    /\ wfinished' = [wfinished EXCEPT ![w] = @ + 1]
    /\ UNCHANGED <<cfgVars, loopVars, episodeVars, outVars, params, wstarted,
                   wactions, done_values, agentVars, updateVars, cnt, failedOp>>
    /\ idleOthers

\* The batched call returns once every worker has answered.
AllWorkersAnswered == \A w \in Envs : wstate[w] = "done"

\* observations, rewards, done_values, info_dicts = envs.step(actions): in
\* each environment the episode may have ended.
EnvStepReturn ==
    /\ pc = "envstep_wait"
    /\ AllWorkersAnswered
    /\ done_values' \in [Envs -> BOOLEAN]
    /\ wstate' = [w \in Envs |-> "idle"]
    /\ pc' = "insert"
    /\ UNCHANGED <<cfgVars, num_updates, update_step, step, episodeVars,
                   outVars, params, wstarted, wfinished, wactions, agentVars,
                   updateVars, cnt, failedOp>>
    /\ idleOthers

\* experience_storage.insert(...)
Insert ==
    /\ pc = "insert"
    /\ cnt' = Count("insert")
    /\ pc' = "record"
    /\ UNCHANGED <<cfgVars, num_updates, update_step, step, episodeVars,
                   outVars, params, workerVars, agentVars, updateVars, failedOp>>
    /\ idleOthers

\* The loop over (done, info), then the next step of the rollout or its end.
RecordEpisodes ==
    /\ pc = "record"
    /\ LET r == RecordFrom(1, episode_rewards, finished, done_values)
       IN  /\ episode_rewards' = r.q
           /\ finished' = r.n
    /\ done_values' = [w \in Envs |-> FALSE]
    /\ step' = step + 1
    /\ pc' = IF step + 1 < StepsInRollout THEN "act" ELSE "bootstrap"
    /\ UNCHANGED <<cfgVars, num_updates, update_step, outVars, params, wstate,
                   wstarted, wfinished, wactions, agentVars, updateVars,
                   cnt, failedOp>>
    /\ idleOthers

\* next_value = actor_critic.value(*critic_input) (no_grad)
Bootstrap ==
    /\ pc = "bootstrap"
    /\ cnt' = Count("bootstrap")
    /\ pc' = "returns"
    /\ UNCHANGED <<cfgVars, num_updates, update_step, step, episodeVars,
                   outVars, params, workerVars, agentVars, updateVars, failedOp>>
    /\ idleOthers

\* experience_storage.compute_returns(next_value, ...)
ComputeReturns ==
    /\ pc = "returns"
    /\ cnt' = Count("returns")
    /\ pc' = "upd_adv"
    /\ UNCHANGED <<cfgVars, num_updates, update_step, step, episodeVars,
                   outVars, params, workerVars, agentVars, updateVars, failedOp>>
    /\ idleOthers

(***************************************************************************)
(* PPOAgent.update, called by learn.                                       *)
(***************************************************************************)
\* losses = defaultdict(int); advantages = compute_advantages()
ComputeAdvantages ==
    /\ pc = "upd_adv"
    /\ cnt' = Count("update_begin")
    /\ epoch' = 0
    /\ batch' = 0
    /\ nb' = 0
    /\ yielded' = 0
    /\ grad_steps' = 0
    /\ grad_log' = <<>>
    /\ pc' = "upd_sched"
    /\ UNCHANGED <<cfgVars, num_updates, update_step, step, episodeVars,
                   outVars, params, workerVars, agentVars, failedOp>>
    /\ idleOthers

\* self._lr_scheduler.step(): LambdaLR moves to the next epoch and sets the
\* rate to base_lr * lr_lambda(last_epoch).
SchedulerStep ==
    /\ pc = "upd_sched"
    /\ cnt' = Count("sched")
    /\ last_epoch' = last_epoch + 1
    /\ lr_mult' = LrLambdaNum(last_epoch + 1)
    /\ pc' = "upd_epoch"
    /\ UNCHANGED <<cfgVars, num_updates, update_step, step, episodeVars,
                   outVars, params, workerVars, agent, agent_error, updateVars,
                   failedOp>>
    /\ idleOthers

\* for epoch in range(self._epochs): the batches generator is created and
\* will yield n batches.
StartEpoch ==
    /\ pc = "upd_epoch"
    /\ epoch < EpochsInUpdate
    /\ LET n == BatchesYielded(agent.minibatches) IN
          /\ nb' = n
          /\ yielded' = yielded + n
          /\ IF n > 0
             THEN /\ pc' = "upd_grad"
                  /\ epoch' = epoch
             ELSE /\ pc' = "upd_epoch"
                  /\ epoch' = epoch + 1
    /\ batch' = 0
    /\ UNCHANGED <<cfgVars, num_updates, update_step, step, episodeVars,
                   outVars, params, workerVars, agentVars, grad_steps,
                   grad_log, cnt, failedOp>>
    /\ idleOthers

\* The loop body for one batch: evaluate_actions, the three losses, then
\* zero_grad, backward, clip_grad_norm_, optimizer step.
GradientStep ==
    /\ pc = "upd_grad"
    /\ batch < nb
    /\ grad_log' = GradStepOps
    /\ params' = params + 1
    /\ grad_steps' = grad_steps + 1
    /\ batch' = batch + 1
    /\ IF batch + 1 < nb
       THEN /\ pc' = "upd_grad"
            /\ epoch' = epoch
       ELSE /\ pc' = "upd_epoch"
            /\ epoch' = epoch + 1
    /\ UNCHANGED <<cfgVars, num_updates, update_step, step, episodeVars,
                   outVars, workerVars, agentVars, nb, yielded, cnt, failedOp>>
    /\ idleOthers

\* After the last epoch: the mean losses, experience_storage.after_update(),
\* return to learn.
AfterUpdate ==
    /\ pc = "upd_epoch"
    /\ epoch >= EpochsInUpdate
    /\ cnt' = Count("update_end")
    /\ pc' = "metrics"
    /\ UNCHANGED <<cfgVars, num_updates, update_step, step, episodeVars,
                   outVars, params, workerVars, agentVars, updateVars, failedOp>>
    /\ idleOthers

(***************************************************************************)
(* learn: the end of an update cycle.                                      *)
(***************************************************************************)
\* if episode_rewards: the four tb_writer.add_scalar(s) calls.
Metrics ==
    /\ pc = "metrics"
    /\ metrics_step' = IF EmitMetrics(episode_rewards) THEN update_step
                       ELSE metrics_step
    /\ metrics_written' = IF EmitMetrics(episode_rewards) THEN MetricTags
                          ELSE metrics_written
    /\ pc' = "save"
    /\ UNCHANGED <<cfgVars, num_updates, update_step, step, episodeVars,
                   writer, checkpoints, params, workerVars,
                   agentVars, updateVars, cnt, failedOp>>
    /\ idleOthers

\* The checkpoint, then the next update cycle or the end of the loop.
Save ==
    /\ pc = "save"
    /\ checkpoints' = IF SaveModel(update_step)
                      THEN SaveTo(checkpoints, ModelLabel(update_step), params)
                      ELSE checkpoints
    /\ IF update_step + 1 < UpdatesInRun
       THEN /\ update_step' = update_step + 1
            /\ step' = 0
            /\ pc' = "act"
       ELSE /\ pc' = "close"
            /\ UNCHANGED <<update_step, step>>
    /\ cnt' = Count("cycle_end")
    /\ UNCHANGED <<cfgVars, num_updates, episodeVars, writer, metrics_step,
                   metrics_written, params, workerVars, agentVars, updateVars,
                   failedOp>>
    /\ idleOthers

\* tb_writer.close()
Close ==
    /\ pc = "close"
    /\ writer' = "closed"
    /\ pc' = "done"
    /\ UNCHANGED <<cfgVars, num_updates, update_step, step, episodeVars,
                   metrics_step, metrics_written, checkpoints, params,
                   workerVars, agentVars, updateVars, cnt, failedOp>>
    /\ idleOthers

\* Any operation of learn may raise (a worker dies, the tensor runtime or
\* the file system reports an error).  Here its first call raises: nothing
\* of the operation has happened.
OperationFails ==
    /\ pc \in RunningPcs
    /\ Raise(pc)
    /\ UNCHANGED <<cfgVars, num_updates, update_step, step, episodeVars,
                   outVars, params, workerVars, agentVars, updateVars, cnt>>
    /\ idleOthers

\* A call after envs = MultiprocessEnvironment(num_envs=num_envs) raises (the
\* policy, the buffer, envs.reset(), SummaryWriter()): the workers exist,
\* the writer does not.
SetupFails ==
    /\ pc = "start"
    /\ wstate' = [w \in Envs |-> "idle"]
    /\ Raise("start")
    /\ UNCHANGED <<cfgVars, num_updates, update_step, step, episodeVars,
                   outVars, params, wstarted, wfinished, wactions,
                   done_values, agentVars, updateVars, cnt>>
    /\ idleOthers

\* The body of `if done:` raises for environment w: the episodes of the
\* environments before w have been appended.
RecordEpisodesFails ==
    /\ pc = "record"
    /\ \E w \in Envs :
          /\ done_values[w]
          /\ LET before == [v \in Envs |-> v < w /\ done_values[v]]
                 r == RecordFrom(1, episode_rewards, finished, before)
             IN  /\ episode_rewards' = r.q
                 /\ finished' = r.n
    /\ Raise("record")
    /\ UNCHANGED <<cfgVars, num_updates, update_step, step, outVars, params,
                   workerVars, agentVars, updateVars, cnt>>
    /\ idleOthers

\* A call of the loop body raises after k of the calls of GradStepOps have
\* returned: backward, clip_grad_norm_ or the optimizer step after the ones
\* before it, or one of the three .item() calls after the optimizer step has
\* been applied.
GradientStepFails ==
    /\ pc = "upd_grad"
    /\ batch < nb
    /\ \E k \in 1..Len(GradStepOps) :
          /\ grad_log' = SubSeq(GradStepOps, 1, k)
          /\ IF k = Len(GradStepOps)
             THEN /\ params' = params + 1
                  /\ grad_steps' = grad_steps + 1
             ELSE UNCHANGED <<params, grad_steps>>
    /\ Raise("upd_grad")
    /\ UNCHANGED <<cfgVars, num_updates, update_step, step, episodeVars,
                   outVars, workerVars, agentVars, epoch, nb, batch, yielded,
                   cnt>>
    /\ idleOthers

\* A tb_writer call of the metrics block raises after k of the four have
\* returned.
MetricsFails ==
    /\ pc = "metrics"
    /\ EmitMetrics(episode_rewards)
    /\ \E k \in 1..(Len(MetricTags) - 1) :
          /\ metrics_step' = update_step
          /\ metrics_written' = SubSeq(MetricTags, 1, k)
    /\ Raise("metrics")
    /\ UNCHANGED <<cfgVars, num_updates, update_step, step, episodeVars,
                   writer, checkpoints, params, workerVars, agentVars,
                   updateVars, cnt>>
    /\ idleOthers

(***************************************************************************)
(* A PPOAgent constructor call and a _policy_loss call on their own.       *)
(***************************************************************************)
ConstructCall ==
    /\ ctor_state = "call"
    /\ agent' = PPOAgentInit(ctor_npos, ctor_kw)
    /\ agent_error' = IF agent'.constructed THEN "none" ELSE "TypeError"
    /\ ctor_state' = IF agent'.constructed THEN "constructed" ELSE "raised"
    /\ UNCHANGED <<learnVars, ctor_npos, ctor_kw, lossVars>>

ComputePolicyLoss ==
    /\ agent.constructed
    /\ loss_batch = <<>>
    /\ \E b \in Batches :
          /\ loss_batch' = b
          /\ policy_loss' = PolicyLoss(agent.clip_threshold, b)
    /\ UNCHANGED <<learnVars, agent, agent_error, ctorVars>>

(***************************************************************************)
(* Specifications.                                                         *)
(***************************************************************************)
InitLearnVars(p) ==
    /\ pc = p
    /\ num_updates = 0
    /\ update_step = 0
    /\ step = 0
    /\ episode_rewards = <<>>
    /\ finished = 0
    /\ writer = "none"
    /\ metrics_step = -1
    /\ metrics_written = <<>>
    /\ checkpoints = {}
    /\ params = 0
    /\ yield_deficit = 0
    /\ wstate = [w \in Envs |-> "none"]
    /\ wstarted = [w \in Envs |-> 0]
    /\ wfinished = [w \in Envs |-> 0]
    /\ wactions = [w \in Envs |-> 0]
    /\ done_values = [w \in Envs |-> FALSE]
    /\ last_epoch = 0
    /\ lr_mult = 0
    /\ epoch = 0
    /\ nb = 0
    /\ batch = 0
    /\ yielded = 0
    /\ grad_steps = 0
    /\ grad_log = <<>>
    /\ cnt = NoCounts
    /\ failedOp = "none"

InitIdle ==
    /\ num_envs = 1
    /\ total_steps = 0
    /\ steps_per_update = 1
    /\ save_interval = 1
    /\ InitLearnVars("idle")

\* learn(num_envs, device, total_steps, steps_per_update, ..., save_interval)
Init ==
    /\ num_envs \in 1..MaxEnvs
    /\ total_steps \in TotalStepsChoices
    /\ steps_per_update \in 1..MaxStepsPerUpdate
    /\ save_interval \in 1..MaxSaveInterval
    /\ NumUpdates <= MaxUpdates
    /\ InitLearnVars("start")
    /\ agent = NoAgent
    /\ agent_error = "none"
    /\ ctor_npos = 0
    /\ ctor_kw = << >>
    /\ ctor_state = "idle"
    /\ loss_batch = <<>>
    /\ policy_loss = NoLoss

NextNoFailure ==
    \/ Setup
    \/ ConstructAgent
    \/ Act
    \/ EnvStepCall
    \/ \E w \in Envs : WorkerStep(w)
    \/ EnvStepReturn
    \/ Insert
    \/ RecordEpisodes
    \/ Bootstrap
    \/ ComputeReturns
    \/ ComputeAdvantages
    \/ SchedulerStep
    \/ StartEpoch
    \/ GradientStep
    \/ AfterUpdate
    \/ Metrics
    \/ Save
    \/ Close

Next ==
    \/ NextNoFailure
    \/ OperationFails
    \/ SetupFails
    \/ RecordEpisodesFails
    \/ GradientStepFails
    \/ MetricsFails

Spec == Init /\ [][Next]_vars

\* A run in which no operation raises: the loop is sequential code, so every
\* enabled step is eventually taken.
SpecNoFailure == Init /\ [][NextNoFailure]_vars /\ WF_vars(NextNoFailure)

\* PPOAgent(*args, **kwargs) for npos positional and the keywords kw.
InitAgent ==
    /\ InitIdle
    /\ agent = NoAgent
    /\ agent_error = "none"
    /\ ctor_npos \in 0..MaxPositional
    /\ ctor_kw \in KwargsChoices
    /\ ctor_state = "call"
    /\ loss_batch = <<>>
    /\ policy_loss = NoLoss

SpecAgent == InitAgent /\ [][ConstructCall]_vars

\* _policy_loss on the agent learn constructs.
InitLoss ==
    /\ InitIdle
    /\ agent = PPOAgentInit(LearnCtorNpos, LearnCtorKw)
    /\ agent_error = "none"
    /\ ctor_npos = LearnCtorNpos
    /\ ctor_kw = LearnCtorKw
    /\ ctor_state = "constructed"
    /\ loss_batch = <<>>
    /\ policy_loss = NoLoss

SpecLoss == InitLoss /\ [][ComputePolicyLoss]_vars

(***************************************************************************)
(* Properties.                                                             *)
(***************************************************************************)
\* Update cycles completed: agent.update calls that have returned.
CyclesUpdated == cnt.update_end

\* Operations of the cycle in progress come in the order act/step/insert
\* rounds, bootstrap, compute_returns, agent.update.
OrderInCycle ==
    /\ cnt.insert <= cnt.envstep
    /\ cnt.envstep <= cnt.act
    /\ cnt.act <= cnt.insert + 1
    /\ cnt.act <= (CyclesUpdated + 1) * steps_per_update
    /\ cnt.act >= cnt.bootstrap * steps_per_update
    /\ cnt.bootstrap <= CyclesUpdated + 1
    /\ cnt.bootstrap = CyclesUpdated + 1
          => cnt.insert = (CyclesUpdated + 1) * steps_per_update
    /\ cnt.returns <= cnt.bootstrap
    /\ cnt.update_begin <= cnt.returns
    /\ CyclesUpdated <= cnt.update_begin

\* An optimizer step happens only inside agent.update, after the cycle's
\* compute_returns.
OptimizerStepOnlyAfterReturns ==
    params' # params =>
        /\ cnt.returns = CyclesUpdated + 1
        /\ cnt.update_begin = CyclesUpdated + 1
        /\ cnt.insert = (CyclesUpdated + 1) * steps_per_update

\* C1: in every update cycle the operations happen in the order: exactly
\* steps_per_update rounds of (act, one batched envs.step, one insert), one
\* bootstrap value, one compute_returns, one agent.update, and only then the
\* next cycle; the parameters do not change between the first act of a cycle
\* and its compute_returns.
C1_CycleOrder == []OrderInCycle /\ [][OptimizerStepOnlyAfterReturns]_vars

\* The second cycle is collecting after a complete first cycle.
C1_Witness ==
    /\ steps_per_update = 2
    /\ CyclesUpdated = 1
    /\ cnt.act = 4
    /\ cnt.insert = 3
    /\ params > 0

\* Update cycles whose checkpoint decision has been taken.
CyclesEnded == cnt.cycle_end

\* Gradient steps of one agent.update call of the run.
StepsPerUpdateCall == agent.epochs * BatchesYielded(agent.minibatches)

\* C2: a snapshot is saved at the end of update_step iff update_step %
\* save_interval = save_interval - 1; it holds the parameters as they are
\* after that update's agent.update; its label is update_step + 1, a positive
\* multiple of save_interval; a full run writes num_updates \div save_interval
\* checkpoints.
C2_Checkpoints ==
    /\ {f.label : f \in checkpoints} =
          {u + 1 : u \in {v \in 0..(CyclesEnded - 1) :
                             v % save_interval = save_interval - 1}}
    /\ \A f \in checkpoints :
          /\ f.label > 0
          /\ f.label % save_interval = 0
          /\ f.snapshot = f.label * StepsPerUpdateCall
    /\ Cardinality(checkpoints) = CyclesEnded \div save_interval
    /\ pc = "done" => Cardinality(checkpoints) = num_updates \div save_interval

\* A full run that ends between two checkpoints, with two written.
C2_Witness ==
    /\ pc = "done"
    /\ save_interval = 2
    /\ num_updates % 2 = 1
    /\ Cardinality(checkpoints) >= 2

\* Batches of this update whose loop body has run to its end.
BatchesDone == yielded - (nb - batch)

\* C3: one PPOAgent.update computes advantages once, steps the scheduler
\* once and before any gradient step, performs one gradient step (zero_grad,
\* backward, clip, optimizer step, in this order) per batch yielded in each of
\* `epochs` epochs, epochs * minibatches in all when every epoch yields
\* `minibatches` batches, and calls after_update once, after the last
\* gradient step.  (A loop body that raises has issued a prefix of the four
\* calls, and has taken its optimizer step only after the other three.)
C3_UpdateStructure ==
    /\ cnt.sched <= cnt.update_begin
    /\ cnt.update_end <= cnt.sched
    /\ cnt.update_begin <= cnt.update_end + 1
    /\ cnt.update_begin >= 1 =>
          /\ params = (cnt.update_begin - 1) * StepsPerUpdateCall + grad_steps
          /\ failedOp # "upd_grad" => grad_steps = BatchesDone
          /\ grad_steps \in {BatchesDone, BatchesDone + 1}
          /\ grad_steps = BatchesDone + 1 =>
                /\ batch < nb
                /\ grad_log = <<"zero_grad", "backward", "clip_grad_norm_", "step">>
          /\ grad_steps <= agent.epochs * agent.minibatches
          /\ grad_log \in {<<>>, <<"zero_grad">>, <<"zero_grad", "backward">>,
                            <<"zero_grad", "backward", "clip_grad_norm_">>,
                            <<"zero_grad", "backward", "clip_grad_norm_", "step">>}
          /\ grad_steps > 0 => cnt.sched = cnt.update_begin
          /\ (grad_steps > 0 /\ failedOp # "upd_grad") =>
                grad_log = <<"zero_grad", "backward", "clip_grad_norm_", "step">>
          /\ cnt.update_end = cnt.update_begin =>
                /\ epoch = agent.epochs
                /\ grad_steps = yielded
                /\ yielded = agent.epochs * nb
                /\ nb = agent.minibatches =>
                      grad_steps = agent.epochs * agent.minibatches

\* An update has returned after 4 * 16 gradient steps.
C3_Witness ==
    /\ cnt.update_end = 1
    /\ cnt.update_begin = 1
    /\ nb = agent.minibatches
    /\ grad_steps = 64

\* C4: each rollout step issues one batched envs.step call with one action
\* per environment; the loop neither computes the next actions nor inserts
\* until every worker has answered; no worker runs step t+1 while another has
\* not finished step t.
C4_WorkersInLockstep ==
    /\ \A w \in Envs : wactions[w] = cnt.envstep
    /\ \A w \in Envs : wstarted[w] = cnt.envstep
    /\ \A w1, w2 \in Envs : wstarted[w1] <= wfinished[w2] + 1
    /\ (\E w \in Envs : wfinished[w] < wstarted[w]) =>
          /\ cnt.act = cnt.envstep
          /\ cnt.insert = cnt.envstep - 1
    /\ cnt.insert = cnt.envstep => \A w \in Envs : wfinished[w] = cnt.envstep

\* In the second step, one worker has answered and another is still busy.
C4_Witness ==
    /\ num_envs = 3
    /\ cnt.envstep = 2
    /\ wstate[1] = "busy"
    /\ wstate[2] = "done"
    /\ wfinished[2] = 2
    /\ wfinished[1] = 1

\* The ratio exp(new_log_prob - old_log_prob) of a sample, in hundredths.
RatioOf(s) == ExpTable[s.new_lp - s.old_lp]

\* C5: with eps = clip_threshold = 0.2, the per-sample objective equals r*A
\* when r is in [1-eps, 1+eps], never exceeds r*A, is (1+eps)*A when A > 0
\* and r > 1+eps, is (1-eps)*A when A < 0 and r < 1-eps; the loss is the
\* negated mean of the per-sample objectives.
C5_ClippedObjective ==
    loss_batch # <<>> =>
        /\ Len(policy_loss.min_terms) = Len(loss_batch)
        /\ \A i \in 1..Len(loss_batch) :
              LET r == RatioOf(loss_batch[i])
                  A == loss_batch[i].adv
                  obj == policy_loss.min_terms[i]
              IN  /\ (80 <= r /\ r <= 120) => obj = r * A
                  /\ obj <= r * A
                  /\ (A > 0 /\ r > 120) => obj = 120 * A
                  /\ (A < 0 /\ r < 80) => obj = 80 * A
        /\ policy_loss.den = Len(loss_batch)
        /\ policy_loss.num + SeqSum(policy_loss.min_terms) = 0

\* A batch with one sample clipped from above and one clipped from below.
C5_Witness ==
    /\ Len(loss_batch) = 2
    /\ RatioOf(loss_batch[1]) > 120
    /\ loss_batch[1].adv > 0
    /\ RatioOf(loss_batch[2]) < 80
    /\ loss_batch[2].adv < 0
    /\ policy_loss.num = 0 - (120 * loss_batch[1].adv + 80 * loss_batch[2].adv)

\* C6: at the end of an update metrics are written iff an episode has
\* finished in this or an earlier update; once written for an update they are
\* written for every later one; the level-progress window holds the most
\* recently finished episodes, 16 at most.  (A metrics block that raises has
\* written a prefix of its four scalars.)
C6_Metrics ==
    /\ pc = "save" => (metrics_step = update_step <=> finished > 0)
    /\ (metrics_step >= 0 /\ failedOp # "metrics") =>
          metrics_written =
              <<"mario/lr", "mario/level_progress", "mario/reward", "mario/loss">>
    /\ metrics_step >= 0 =>
          /\ finished > 0
          /\ metrics_written # <<>>
          /\ metrics_written[1] = "mario/lr"
    /\ metrics_step < 0 => metrics_written = <<>>
    /\ metrics_step <= update_step
    /\ metrics_step >= 0 => metrics_step >= CyclesEnded - 1
    /\ (metrics_step >= 0 /\ pc \in {"save", "close", "done"})
          => metrics_step = update_step
    /\ Len(episode_rewards) <= 16
    /\ Len(episode_rewards) = Min(finished, 16)
    /\ \A i \in 1..Len(episode_rewards) :
          episode_rewards[i] = finished - Len(episode_rewards) + i

\* Metrics written for a later update of a run, by which more than 16
\* episodes have finished.
C6_Witness ==
    /\ pc = "save"
    /\ finished > 16
    /\ metrics_step = update_step
    /\ update_step >= 1

\* What a later environment step, gradient step, checkpoint or metrics
\* write would change.
Effects ==
    <<cnt, params, checkpoints, metrics_step, metrics_written, wstarted,
      wfinished, wactions, writer, episode_rewards, last_epoch, grad_log>>

\* C7: when an operation of a cycle raises, learn stops there, with what the
\* operation had done before it raised left in place: the operation is not
\* re-issued, no later environment step, gradient step or checkpoint occurs,
\* and the checkpoints written before stay as they were.
C7_NoRecovery ==
    /\ [](failedOp # "none" => pc = "aborted")
    /\ [][failedOp' # "none" => (pc' = "aborted" /\ checkpoints' = checkpoints)]_vars
    /\ [][failedOp # "none" => (pc' = "aborted" /\ UNCHANGED Effects)]_vars

\* In a run that had written a checkpoint, a gradient step raised after its
\* optimizer step.
C7_Witness ==
    /\ failedOp = "upd_grad"
    /\ pc = "aborted"
    /\ checkpoints # {}
    /\ grad_steps = BatchesDone + 1

RECURSIVE SumOver(_, _)
SumOver(f, S) ==
    IF S = {} THEN 0
    ELSE LET x == CHOOSE y \in S : TRUE IN f[x] + SumOver(f, S \ {x})

\* Environment transitions collected: the steps the workers have executed.
Transitions == SumOver(wfinished, Envs)

Terminated == pc \in {"done", "aborted"}

\* C8: when no operation raises, learn ends after exactly num_updates =
\* total_steps // (num_envs * steps_per_update) cycles, having collected
\* num_updates * num_envs * steps_per_update transitions, at most total_steps
\* and short of it by less than num_envs * steps_per_update; the writer is
\* closed only after the last cycle.  (With num_updates = 0 the run ends
\* before its first cycle, in the scheduler's division by num_updates.)
C8_Termination ==
    /\ <>Terminated
    /\ [](Terminated =>
            /\ CyclesUpdated = num_updates
            /\ CyclesEnded = num_updates
            /\ num_updates * (num_envs * steps_per_update) <= total_steps
            /\ total_steps < (num_updates + 1) * (num_envs * steps_per_update)
            /\ Transitions = num_updates * num_envs * steps_per_update
            /\ Transitions <= total_steps
            /\ total_steps - Transitions < num_envs * steps_per_update)
    /\ [](writer = "closed" => (pc = "done" /\ CyclesEnded = num_updates))
    /\ [](pc = "aborted" => (num_updates = 0 /\ agent_error = "ZeroDivisionError"))

\* A run that ended with total_steps not a multiple of the rollout size.
C8_Witness ==
    /\ pc = "done"
    /\ writer = "closed"
    /\ total_steps = 7
    /\ num_envs = 2
    /\ steps_per_update = 2
    /\ Transitions = 4

\* The epoch LambdaLR's constructor left in last_epoch in this run.
SchedulerStartedAt == last_epoch - cnt.sched

\* C9 as stated: every gradient step of update k runs under the multiplier
\* 1 - (k+1)/num_updates, never negative, and 0 in the final update.
C9_LrAtGradientStepAsClaimed ==
    params' # params =>
        /\ cnt.sched = update_step + 1
        /\ lr_mult = num_updates - (update_step + 1)
        /\ lr_mult >= 0
        /\ update_step = num_updates - 1 => lr_mult = 0

C9_LrDecayAsClaimed == [][C9_LrAtGradientStepAsClaimed]_vars

\* C9, amended: the scheduler is stepped once at the start of each update,
\* before any gradient step, so a gradient step of update k runs under the
\* multiplier 1 - (k+1)/num_updates where LambdaLR's constructor leaves
\* last_epoch at 0, and under 1 - k/num_updates where it leaves it at -1; in
\* both the multiplier is one num_updates-th less than in the update before
\* and never negative; in the final update it is 0 in the first case and
\* 1/num_updates in the second.
C9_LrAtGradientStep ==
    params' # params =>
        /\ cnt.sched = update_step + 1
        /\ SchedulerStartedAt \in {-1, 0}
        /\ last_epoch = update_step + 1 + SchedulerStartedAt
        /\ lr_mult = num_updates - (update_step + 1 + SchedulerStartedAt)
        /\ lr_mult >= 0
        /\ lr_mult <= num_updates
        /\ update_step = num_updates - 1 => lr_mult = 0 - SchedulerStartedAt

C9_LrDecay == [][C9_LrAtGradientStep]_vars

\* Gradient steps have run in the final update of a run of several, at
\* multiplier 1/num_updates: the scheduler started at -1.
C9_Witness ==
    /\ num_updates >= 2
    /\ update_step = num_updates - 1
    /\ pc = "upd_grad"
    /\ batch > 0
    /\ SchedulerStartedAt = -1
    /\ lr_mult = 1

\* C10: a PPOAgent call naming clip_threshold, epochs or minibatches raises in
\* Agent.__init__ and constructs nothing; every constructed PPOAgent has
\* clip_threshold 0.2, epochs 4, minibatches 16.
C10_DefaultsOnly ==
    /\ ctor_state = "constructed" =>
          /\ agent.constructed
          /\ agent.clip_threshold = 20
          /\ agent.epochs = 4
          /\ agent.minibatches = 16
    /\ (ctor_state # "call" /\ DOMAIN ctor_kw \cap PPOKwNames # {}) =>
          /\ ctor_state = "raised"
          /\ ~agent.constructed
    /\ ctor_state = "raised" => ~agent.constructed

\* One call that constructed an agent from keywords.
C10_Witness ==
    /\ ctor_state = "constructed"
    /\ DOMAIN ctor_kw = {"lr", "lr_lambda"}
    /\ ctor_npos = 1

====
